---------------------------- MODULE Spec2Model ----------------------------
(***************************************************************************)
(* Model of the SHM animation scripts (src/SHM.py, src/SHMstreamlit.py).   *)
(*                                                                         *)
(* Both scripts run the same module-level code: parameters, the sample     *)
(* arrays (t_full .. F_full), the empty plot artists, and the per-frame    *)
(* callback update(frame) handed to FuncAnimation.                         *)
(*                                                                         *)
(* Numbers.  Times are exact rationals <<num, den>> in lowest terms.       *)
(* Every other float is a fixed-point integer with Scale units per 1.0;    *)
(* cos and sin are evaluated by quadrant reduction and a Taylor            *)
(* polynomial, so they are deterministic functions of the time value and   *)
(* of the period only, as np.cos / np.sin are of their argument.           *)
(***************************************************************************)
EXTENDS Integers, Sequences, FiniteSets, TLC

VARIABLES
    pc,                    \* "params" | "ready" | "error"
    R, period, t_max, fps, n_frames,
    t_full, x_full, y_full, z_full, d_full, v_full, a_full, F_full,
    point_3d, line_center_to_point, proj_line,
    line_f, line_d, line_v, line_a,
    force_quiver,          \* None or the id of the arrow made by the last update
    ax3d_collections,      \* the arrows currently on the 3D axes
    removed,               \* ids handed to Artist.remove(), in call order
    n_quivers,             \* number of ax3d.quiver calls so far
    frame                  \* argument of the last update call, -1 before it

params  == <<R, period, t_max, fps, n_frames>>
samples == <<t_full, x_full, y_full, z_full, d_full, v_full, a_full, F_full>>
artists == <<point_3d, line_center_to_point, proj_line,
             line_f, line_d, line_v, line_a>>
quiver  == <<force_quiver, ax3d_collections, removed, n_quivers>>
vars    == <<pc, params, samples, artists, quiver, frame>>

---------------------------------------------------------------------------
(* Bounds of the explored parameter space. *)
MaxR       == 2
MaxTmax    == 2
MaxFps     == 3
MaxPeriod  == 5
MaxUpdates == 3

(* The parameters the scripts ship with. *)
ShippedR      == 1
ShippedPeriod == 5
ShippedTmax   == 10
ShippedFps    == 30

None == 0

---------------------------------------------------------------------------
(* Fixed-point arithmetic standing for float64. *)
Scale == 10 * 10 * 10
Pi    == 3142

Abs(n) == IF n < 0 THEN -n ELSE n

\* product of two fixed-point numbers, rounded toward zero
FMul(p, q) == IF p * q >= 0 THEN (p * q) \div Scale ELSE -((-(p * q)) \div Scale)

RECURSIVE GCD(_, _)
GCD(m, n) == IF n = 0 THEN m ELSE GCD(n, m % n)

\* the rational num/den (den > 0) in lowest terms
Rat(num, den) ==
    LET g == GCD(Abs(num), den) IN <<num \div g, den \div g>>

RatSub(p, q) == Rat(p[1] * q[2] - q[1] * p[2], p[2] * q[2])
RatLess(p, q) == p[1] * q[2] < q[1] * p[2]

\* 2 * np.pi / period
Omega(per) == (2 * Pi) \div per
omega == Omega(period)

\* Taylor polynomials on [0, pi/4], argument and result in fixed point
TaylorCos(u) ==
    LET u2 == FMul(u, u)
        u4 == FMul(u2, u2)
        u6 == FMul(u4, u2)
    IN  Scale - (u2 \div 2) + (u4 \div 24) - (u6 \div 720)

TaylorSin(u) ==
    LET u2 == FMul(u, u)
        u3 == FMul(u2, u)
        u5 == FMul(u3, u2)
        u7 == FMul(u5, u2)
    IN  u - (u3 \div 6) + (u5 \div 120) - (u7 \div 5040)

\* the arc (rn/den) * pi/2 in fixed point, 0 <= rn <= den
Arc(rn, den) == ((Pi \div 2) * rn) \div den

\* cos and sin of (rn/den) * pi/2 for 0 <= rn < den
QCos(rn, den) ==
    IF 2 * rn <= den THEN TaylorCos(Arc(rn, den)) ELSE TaylorSin(Arc(den - rn, den))
QSin(rn, den) ==
    IF 2 * rn <= den THEN TaylorSin(Arc(rn, den)) ELSE TaylorCos(Arc(den - rn, den))

\* np.cos(omega * t) and np.sin(omega * t) for a time t = <<num, den>> >= 0:
\* omega * t is t / per turns
Cos(per, t) ==
    LET den == t[2] * per
        k   == ((4 * t[1]) \div den) % 4
        rn  == (4 * t[1]) % den
    IN  CASE k = 0 -> QCos(rn, den)
          [] k = 1 -> -QSin(rn, den)
          [] k = 2 -> -QCos(rn, den)
          [] k = 3 -> QSin(rn, den)

Sin(per, t) ==
    LET den == t[2] * per
        k   == ((4 * t[1]) \div den) % 4
        rn  == (4 * t[1]) % den
    IN  CASE k = 0 -> QSin(rn, den)
          [] k = 1 -> QCos(rn, den)
          [] k = 2 -> -QSin(rn, den)
          [] k = 3 -> -QCos(rn, den)

---------------------------------------------------------------------------
(* The sampler: module-level code that builds the sample arrays.  An array *)
(* is a function on 0 .. len-1.                                            *)

Len0(arr) == Cardinality(DOMAIN arr)

\* variant: one sample too few
LinspaceShort(stop, num) ==
    [i \in 0 .. num - 2 |-> IF num > 1 THEN Rat(i * stop, num - 1) ELSE Rat(0, 1)]

\* variant: endpoint=False, the grid stops one step before stop
LinspaceNoEndpoint(stop, num) ==
    [i \in 0 .. num - 1 |-> IF num > 0 THEN Rat(i * stop, num) ELSE Rat(0, 1)]

\* np.linspace(0, stop, num) for num >= 0 (endpoint=True)
Linspace(stop, num) ==
    LET div == num - 1 IN
    [i \in 0 .. num - 1 |->
        IF num > 1 /\ i = num - 1 THEN Rat(stop, 1)
        ELSE IF div > 0 THEN Rat(i * stop, div)
        ELSE Rat(i * stop, 1)]

\* variant: the frame index is used as the time
XFullByIndex(r, per, t) == [i \in DOMAIN t |-> r * Cos(per, Rat(i, 1))]

\* R * np.cos(omega * t_full)
XFull(r, per, t) == [i \in DOMAIN t |-> r * Cos(per, t[i])]

\* R * np.sin(omega * t_full)
YFull(r, per, t) == [i \in DOMAIN t |-> r * Sin(per, t[i])]

\* np.zeros_like(t_full)
ZFull(t) == [i \in DOMAIN t |-> 0]

\* variant: the copy flips the sign
CopyNegated(arr) == [i \in DOMAIN arr |-> -arr[i]]

\* arr.copy()
Copy(arr) == [i \in DOMAIN arr |-> arr[i]]

\* -R * omega * np.sin(omega * t_full)
VFull(r, per, t) ==
    [i \in DOMAIN t |-> FMul((-r) * Omega(per), Sin(per, t[i]))]

\* -R * omega**2 * np.cos(omega * t_full)
AFull(r, per, t) ==
    [i \in DOMAIN t |-> FMul((-r) * FMul(Omega(per), Omega(per)), Cos(per, t[i]))]

\* an artist created by plot([], [], ...)
EmptyLine   == [xdata |-> << >>, ydata |-> << >>]
EmptyLine3D == [xs |-> << >>, ys |-> << >>, zs |-> << >>]

---------------------------------------------------------------------------
(* update(frame) *)

\* variant: slice(0, frame), the current frame is left out
CurrentSliceExclusive(arr, fr) == [i \in 0 .. fr - 1 |-> arr[i]]

\* arr[slice(0, frame + 1)] for 0 <= frame < len(arr)
CurrentSlice(arr, fr) == [i \in 0 .. fr |-> arr[i]]

\* variant: the arrow points outward
ForceVectorOutward(r, per, t) ==
    << FMul(r * FMul(Omega(per), Omega(per)), Cos(per, t)),
       FMul(r * FMul(Omega(per), Omega(per)), Sin(per, t)),
       0 >>

\* the direction (fx, fy, fz) computed from the current time
ForceVector(r, per, t) ==
    << FMul((-r) * FMul(Omega(per), Omega(per)), Cos(per, t)),
       FMul((-r) * FMul(Omega(per), Omega(per)), Sin(per, t)),
       0 >>

\* variant: the previous arrow is left on the axes
RemoveQuiverSkipped(coll, fq) == coll

\* the axes' collections after force_quiver.remove(), when there is an arrow
RemoveQuiver(coll, fq) ==
    IF fq # None THEN {q \in coll : q.id # fq} ELSE coll

\* ax3d.quiver(x, y, z, fx, fy, fz): a new arrow, added to the axes
Quiver(coll, id, pos, dir) == coll \cup {[id |-> id, pos |-> pos, dir |-> dir]}

---------------------------------------------------------------------------
TypeParams ==
    /\ R \in -1 .. MaxR
    /\ period \in 4 .. MaxPeriod
    /\ t_max \in -1 .. MaxTmax
    /\ fps \in 1 .. MaxFps

NoSamples ==
    /\ t_full = << >> /\ x_full = << >> /\ y_full = << >> /\ z_full = << >>
    /\ d_full = << >> /\ v_full = << >> /\ a_full = << >> /\ F_full = << >>

NoArtists ==
    /\ point_3d = EmptyLine3D
    /\ line_center_to_point = EmptyLine3D
    /\ proj_line = EmptyLine3D
    /\ line_f = EmptyLine /\ line_d = EmptyLine
    /\ line_v = EmptyLine /\ line_a = EmptyLine
    /\ force_quiver = None
    /\ ax3d_collections = {}
    /\ removed = << >>
    /\ n_quivers = 0
    /\ frame = -1

\* the state after the parameter block: n_frames = int(t_max * fps), both ints
Init ==
    /\ pc = "params"
    /\ TypeParams
    /\ n_frames = t_max * fps
    /\ NoSamples
    /\ NoArtists

InitShipped ==
    /\ pc = "params"
    /\ R = ShippedR /\ period = ShippedPeriod
    /\ t_max = ShippedTmax /\ fps = ShippedFps
    /\ n_frames = t_max * fps
    /\ NoSamples
    /\ NoArtists

\* np.linspace raises ValueError for a negative number of samples
SampleError ==
    /\ pc = "params"
    /\ n_frames < 0
    /\ pc' = "error"
    /\ UNCHANGED <<params, samples, artists, quiver, frame>>

\* the arrays are built and the empty artists created
Sample ==
    /\ pc = "params"
    /\ n_frames >= 0
    /\ pc' = "ready"
    /\ t_full' = Linspace(t_max, n_frames)
    /\ x_full' = XFull(R, period, t_full')
    /\ y_full' = YFull(R, period, t_full')
    /\ z_full' = ZFull(t_full')
    /\ d_full' = Copy(x_full')
    /\ v_full' = VFull(R, period, t_full')
    /\ a_full' = AFull(R, period, t_full')
    /\ F_full' = Copy(a_full')
    /\ UNCHANGED <<params, artists, quiver, frame>>

\* the body of update(frame): every write it makes
UpdateArtists(fr) ==
    /\ LET t == t_full[fr]
           x == x_full[fr]
           y == y_full[fr]
           z == z_full[fr]
       IN  /\ point_3d' = [xs |-> <<x>>, ys |-> <<y>>, zs |-> <<z>>]
           /\ line_center_to_point' = [xs |-> <<0, x>>, ys |-> <<0, y>>, zs |-> <<0, z>>]
           /\ proj_line' = [xs |-> <<x, x>>, ys |-> <<0, 0>>, zs |-> <<0, z>>]
           /\ removed' = IF force_quiver # None
                         THEN Append(removed, force_quiver) ELSE removed
           /\ n_quivers' = n_quivers + 1
           /\ ax3d_collections' =
                  Quiver(RemoveQuiver(ax3d_collections, force_quiver),
                         n_quivers', <<x, y, z>>, ForceVector(R, period, t))
           /\ force_quiver' = n_quivers'
    /\ line_f' = [xdata |-> CurrentSlice(t_full, fr), ydata |-> CurrentSlice(F_full, fr)]
    /\ line_d' = [xdata |-> CurrentSlice(t_full, fr), ydata |-> CurrentSlice(d_full, fr)]
    /\ line_v' = [xdata |-> CurrentSlice(t_full, fr), ydata |-> CurrentSlice(v_full, fr)]
    /\ line_a' = [xdata |-> CurrentSlice(t_full, fr), ydata |-> CurrentSlice(a_full, fr)]
    /\ frame' = fr

\* variant: update rebinds t_full to the slice it plots
UpdateRebinds(fr) ==
    /\ pc = "ready"
    /\ fr \in 0 .. n_frames - 1
    /\ n_quivers < MaxUpdates
    /\ UpdateArtists(fr)
    /\ t_full' = CurrentSlice(t_full, fr)
    /\ UNCHANGED <<pc, params, x_full, y_full, z_full, d_full, v_full, a_full, F_full>>

\* one call of update(frame) by the animation, frame in range(n_frames);
\* only force_quiver is declared global, so no other module name is rebound
Update(fr) ==
    /\ pc = "ready"
    /\ fr \in 0 .. n_frames - 1
    /\ n_quivers < MaxUpdates
    /\ UpdateArtists(fr)
    /\ UNCHANGED <<pc, params, samples>>

Animate == \E fr \in 0 .. n_frames - 1 : Update(fr)

Next == SampleError \/ Sample \/ Animate

Spec == Init /\ [][Next]_vars

NextShipped == Sample \/ Animate

SpecShipped == InitShipped /\ [][NextShipped]_vars

---------------------------------------------------------------------------
(* Properties *)

ValidParams   == R > 0 /\ t_max > 0 /\ n_frames > 1
InvalidParams == R <= 0 \/ t_max <= 0 \/ n_frames <= 1

SameIndices ==
    /\ DOMAIN x_full = DOMAIN t_full /\ DOMAIN y_full = DOMAIN t_full
    /\ DOMAIN z_full = DOMAIN t_full /\ DOMAIN d_full = DOMAIN t_full
    /\ DOMAIN v_full = DOMAIN t_full /\ DOMAIN a_full = DOMAIN t_full
    /\ DOMAIN F_full = DOMAIN t_full

\* C1: with R <= 0, t_max <= 0 or a frame count N <= 1 the sampler ends in a
\* parameter error and produces no sample arrays.
C1_InvalidRejected ==
    InvalidParams => (pc # "ready" /\ NoSamples)

\* C2: for valid parameters every sample array has exactly N = n_frames
\* entries, so every frame index the animation passes to update is an index
\* of every array.
C2_LengthIsNFrames ==
    (pc = "ready" /\ ValidParams) =>
        /\ DOMAIN t_full = 0 .. n_frames - 1
        /\ Len0(t_full) = n_frames
        /\ SameIndices
        /\ frame >= 0 => frame \in DOMAIN t_full

C2_Witness ==
    pc = "ready" /\ ValidParams /\ frame = n_frames - 1 /\ Len0(F_full) = n_frames

\* C3: for valid parameters t[0] = 0, t[N-1] = t_max, consecutive times
\* differ by the constant t_max/(N-1), and t is strictly increasing.
C3_UniformGrid ==
    (pc = "ready" /\ ValidParams) =>
        /\ t_full[0] = <<0, 1>>
        /\ t_full[n_frames - 1] = <<t_max, 1>>
        /\ \A i \in 0 .. n_frames - 2 :
              /\ RatSub(t_full[i + 1], t_full[i]) = Rat(t_max, n_frames - 1)
              /\ RatLess(t_full[i], t_full[i + 1])

C3_Witness ==
    pc = "ready" /\ ValidParams /\ n_frames >= 4 /\ t_full[n_frames - 1] = <<t_max, 1>>

\* C4: once the sample set is built no step changes the arrays or the
\* scalars R, omega, t_max, n_frames; update writes artists only.
C4_SamplesImmutable ==
    [][pc = "ready" => (samples' = samples /\ params' = params /\ omega' = omega)]_vars

C4_Witness ==
    pc = "ready" /\ n_quivers >= 2 /\ frame = 0 /\ n_frames > 1
        /\ Len0(line_f.xdata) = 1 /\ Len0(t_full) = n_frames

\* C5: d[i] = x[i] and F[i] = a[i] for every frame i, also after updates.
C5_CopiesEqual ==
    pc = "ready" =>
        /\ DOMAIN d_full = DOMAIN x_full
        /\ DOMAIN F_full = DOMAIN a_full
        /\ \A i \in DOMAIN x_full : d_full[i] = x_full[i]
        /\ \A i \in DOMAIN a_full : F_full[i] = a_full[i]

C5_Witness ==
    /\ pc = "ready" /\ n_quivers >= 1
    /\ \E i \in DOMAIN x_full : x_full[i] # 0 /\ d_full[i] = x_full[i]
    /\ \E i \in DOMAIN a_full : a_full[i] # 0 /\ F_full[i] = a_full[i]

\* a fixed-point value within 0.05 of the target
Tol == Scale \div 20
Near(val, target) == Abs(val - target) <= Tol

\* the quarter period period/4 as a time
QuarterPeriod == Rat(period, 4)

\* C6 as stated: with the shipped parameters some frame has t = 1.25, and
\* there x ~ 0, y ~ 1, d ~ 0, v ~ -R*omega, a ~ 0.
C6_QuarterFrameExists ==
    pc = "ready" =>
        \E i \in DOMAIN t_full :
            /\ t_full[i] = <<5, 4>>
            /\ Near(x_full[i], 0) /\ Near(y_full[i], Scale) /\ Near(d_full[i], 0)
            /\ Near(v_full[i], -(R * omega)) /\ Near(a_full[i], 0)

\* C6 amended: with the shipped parameters the frame times are 10*i/299, no
\* frame has t = 1.25, and 1.25 lies strictly between frames 37 and 38; at
\* both of these frames x ~ 0, y ~ 1, d ~ 0, v ~ -R*omega, a ~ 0, with x
\* changing sign from + to - and a from - to +.
C6_QuarterBetweenFrames ==
    pc = "ready" =>
        /\ n_frames = 300 /\ QuarterPeriod = <<5, 4>>
        /\ \A i \in DOMAIN t_full : t_full[i] = Rat(10 * i, 299)
        /\ \A i \in DOMAIN t_full : t_full[i] # QuarterPeriod
        /\ RatLess(t_full[37], QuarterPeriod) /\ RatLess(QuarterPeriod, t_full[38])
        /\ x_full[37] > 0 /\ x_full[38] < 0
        /\ a_full[37] < 0 /\ a_full[38] > 0
        /\ \A i \in {37, 38} :
              /\ Near(x_full[i], 0) /\ Near(y_full[i], Scale) /\ Near(d_full[i], 0)
              /\ Near(v_full[i], -(R * omega)) /\ Near(a_full[i], 0)

C6_Witness ==
    /\ pc = "ready" /\ R = ShippedR /\ period = ShippedPeriod /\ n_frames = 300
    /\ frame = 37 /\ point_3d.xs = <<x_full[37]>>

\* C7: building the set with N and with 2N frames gives the same x, y, z,
\* d, v, a, F at every pair of frames that have the same time.
C7_ResampleConsistent ==
    (pc = "ready" /\ ValidParams) =>
        LET t2 == Linspace(t_max, 2 * n_frames)
            x2 == XFull(R, period, t2)
            y2 == YFull(R, period, t2)
            z2 == ZFull(t2)
            d2 == Copy(x2)
            v2 == VFull(R, period, t2)
            a2 == AFull(R, period, t2)
            F2 == Copy(a2)
        IN  \A i \in DOMAIN t_full : \A j \in DOMAIN t2 :
                t_full[i] = t2[j] =>
                    /\ x_full[i] = x2[j] /\ y_full[i] = y2[j] /\ z_full[i] = z2[j]
                    /\ d_full[i] = d2[j] /\ v_full[i] = v2[j]
                    /\ a_full[i] = a2[j] /\ F_full[i] = F2[j]

C7_Witness ==
    /\ pc = "ready" /\ ValidParams /\ n_frames >= 3
    /\ Linspace(t_max, 2 * n_frames)[2 * n_frames - 1] = t_full[n_frames - 1]
    /\ x_full[n_frames - 1] # x_full[1]

\* the arrow the last update call put on the axes
CurrentArrows == {q \in ax3d_collections : q.id = force_quiver}

\* C8: the arrow update(i) draws has x-component F_full[i] = a_full[i],
\* z-component 0, and starts at (x_full[i], y_full[i], z_full[i]).
C8_ArrowMatchesSamples ==
    (pc = "ready" /\ frame >= 0) =>
        /\ CurrentArrows # {}
        /\ \A q \in CurrentArrows :
              /\ q.dir[1] = F_full[frame]
              /\ q.dir[1] = a_full[frame]
              /\ q.dir[3] = 0
              /\ q.pos = <<x_full[frame], y_full[frame], z_full[frame]>>

C8_Witness ==
    /\ pc = "ready" /\ frame >= 1 /\ n_quivers >= 2
    /\ F_full[frame] # 0
    /\ \E q \in CurrentArrows : q.dir[1] = F_full[frame] /\ q.pos[2] # 0

\* C9: after update(i) each of the lines F, d, v, a holds exactly the
\* samples 0..i paired with t[0..i], whatever calls came before.
C9_LinesShowPrefix ==
    (pc = "ready" /\ frame >= 0) =>
        /\ line_f = [xdata |-> [i \in 0 .. frame |-> t_full[i]],
                     ydata |-> [i \in 0 .. frame |-> F_full[i]]]
        /\ line_d = [xdata |-> [i \in 0 .. frame |-> t_full[i]],
                     ydata |-> [i \in 0 .. frame |-> d_full[i]]]
        /\ line_v = [xdata |-> [i \in 0 .. frame |-> t_full[i]],
                     ydata |-> [i \in 0 .. frame |-> v_full[i]]]
        /\ line_a = [xdata |-> [i \in 0 .. frame |-> t_full[i]],
                     ydata |-> [i \in 0 .. frame |-> a_full[i]]]
        /\ Len0(line_f.xdata) = frame + 1 /\ Len0(line_f.ydata) = frame + 1
        /\ Len0(line_d.ydata) = frame + 1 /\ Len0(line_v.ydata) = frame + 1
        /\ Len0(line_a.ydata) = frame + 1

C9_Witness ==
    /\ pc = "ready" /\ n_quivers = 3 /\ frame = 0 /\ n_frames >= 3
    /\ Len0(line_v.ydata) = 1 /\ removed = <<1, 2>>

\* C10: no arrow before the first update; after k >= 1 updates exactly one
\* arrow is on the axes, the one made by the last call, every earlier arrow
\* has been removed, and none was removed twice.
C10_OneArrow ==
    /\ n_quivers = 0 => (force_quiver = None /\ ax3d_collections = {})
    /\ n_quivers >= 1 =>
          /\ force_quiver = n_quivers
          /\ Cardinality(ax3d_collections) = 1
          /\ \A q \in ax3d_collections : q.id = force_quiver
          /\ removed = [k \in 1 .. n_quivers - 1 |-> k]
    /\ \A m, n \in DOMAIN removed : removed[m] = removed[n] => m = n

C10_Witness ==
    /\ pc = "ready" /\ n_quivers = 3 /\ force_quiver = 3
    /\ Cardinality(ax3d_collections) = 1 /\ Len(removed) = 2

===========================================================================
